---------------------------- MODULE Spec2Model ----------------------------
(***************************************************************************)
(* Model of kitops' reference parsing (pkg/lib/repo), manifest/config      *)
(* resolution (pkg/lib/repo) and the unpack engine (pkg/cmd/unpack).       *)
(*                                                                         *)
(* Three specifications share the module:                                  *)
(*   SpecParse  - ParseReference applied to bounded reference strings      *)
(*   SpecRepo   - GetManifest / GetConfig / Resolve* against a store       *)
(*   Spec       - one invocation of unpackModel against a filesystem       *)
(***************************************************************************)
EXTENDS Integers, Sequences, FiniteSets, TLC

VARIABLES
    refString,   \* ParseReference: the argument of the last call
    parseOut,    \* ParseReference: the (ref, extraTags, err) it returned
    store,       \* the content store: tags and blobs
    repoCall,    \* resolver: the function called last and its argument
    repoOut,     \* resolver: the (manifest, config, err) it returned
    options,     \* unpackModel: *unpackOptions
    fs,          \* the filesystem: existing absolute path -> "dir" | "file"
    pc,          \* unpackModel: position in the code
    err,         \* unpackModel: the error returned ("none" while running)
    manifest,    \* unpackModel: manifest returned by GetManifestAndConfig
    config,      \* unpackModel: config returned by GetManifestAndConfig
    layerIdx,    \* unpackModel: 1-based position of the loop in manifest.Layers
    codeIdx,     \* unpackModel: codeIdx
    datasetIdx,  \* unpackModel: datasetIdx
    extractDir,  \* extractTar: dir
    entriesRead, \* extractTar: headers returned so far by tr.Next()
    cancelled,   \* ctx has been cancelled
    handles,     \* unpackLayer: resources open, and Close calls deferred
    fs0,         \* history: the filesystem before the invocation
    written,     \* history: paths created or (re)written by the invocation
    fetchCalls,  \* history: layers store.Fetch was called for, in call order
    lastStep     \* history: what the last step of the invocation examined

parseVars == <<refString, parseOut>>
repoVars  == <<repoCall, repoOut>>
unpackVars == <<options, fs, pc, err, manifest, config, layerIdx, codeIdx,
                datasetIdx, extractDir, entriesRead, cancelled, handles, fs0,
                written, fetchCalls, lastStep>>
vars == <<parseVars, store, repoVars, unpackVars>>

(***************************************************************************)
(* Strings.  A string is a sequence of symbols: a symbol is one of the     *)
(* delimiter characters the parsers look at, or a word, a maximal run of   *)
(* lower-case letters and digits.  Every operation of the code on strings *)
(* (Split, Contains, Index, the grammars) acts on delimiters and treats    *)
(* words as units.                                                         *)
(***************************************************************************)
Delims == {"/", ":", ".", ",", "@"}
NumericWords == {"5000"}
Words  == {"localhost", "org", "sha256", "hex64"} \cup NumericWords
Symbols == Words \cup Delims

DefaultRegistry   == <<"localhost">>
DefaultRepository == <<"_">>

\* strings.Contains(s, c) for a one-character c
Contains(s, c) == \E i \in 1..Len(s) : s[i] = c

\* strings.Index(s, c): position of the first c, 0 when there is none
Index(s, c) ==
    IF Contains(s, c) THEN CHOOSE i \in 1..Len(s) : s[i] = c /\ \A j \in 1..(i-1) : s[j] # c
    ELSE 0

\* strings.Split(s, c): the pieces between the occurrences of c
RECURSIVE Split(_, _)
Split(s, c) ==
    LET i == Index(s, c) IN
    IF i = 0 THEN <<s>>
    ELSE <<SubSeq(s, 1, i-1)>> \o Split(SubSeq(s, i+1, Len(s)), c)

\* digest.Parse: algorithm ":" encoded, a registered algorithm and an
\* encoding of the length the algorithm requires
IsDigest(s) == s = <<"sha256", ":", "hex64">>

\* one path component of a repository name: words joined by separators
IsRepoComponent(s) ==
    /\ Len(s) >= 1
    /\ Len(s) % 2 = 1
    /\ \A i \in 1..Len(s) : IF i % 2 = 1 THEN s[i] \in Words ELSE s[i] = "."

\* Reference.ValidateRepository
ValidRepository(s) ==
    LET comps == Split(s, "/") IN
    \A i \in 1..Len(comps) : IsRepoComponent(comps[i])

\* Reference.ValidateRegistry: "dummy://" + registry must parse as a URL
\* whose host is the registry itself: no user-info, at most one ":" and a
\* numeric (or empty) port after it
ValidRegistry(s) ==
    LET hp == Split(s, ":") IN
    /\ Len(s) >= 1
    /\ ~Contains(s, "@")
    /\ Len(hp) \in {1, 2}
    /\ Len(hp) = 2 => (hp[2] = <<>> \/ (Len(hp[2]) = 1 /\ hp[2][1] \in NumericWords))

\* validTagRegex / Reference.ValidateReferenceAsTag
ValidTag(s) ==
    /\ Len(s) >= 1
    /\ s[1] \in Words
    /\ \A i \in 1..Len(s) : s[i] \in Words \cup {"."}

NoRef == [Registry |-> <<>>, Repository |-> <<>>, Reference |-> <<>>]
ParseFailure == [ok |-> FALSE, ref |-> NoRef, extraTags |-> <<>>]

\* registry.ParseReference of oras-go, as called by ParseReference
RegistryParseReference(artifact) ==
    LET slash == Index(artifact, "/") IN
    IF slash = 0 THEN ParseFailure
    ELSE
      LET reg  == SubSeq(artifact, 1, slash-1)
          path == SubSeq(artifact, slash+1, Len(artifact))
          at   == Index(path, "@")
          col  == Index(path, ":")
          isTag == at = 0 /\ col # 0
          repoAt == SubSeq(path, 1, at-1)
          repo ==
            IF at # 0
            THEN (IF Index(repoAt, ":") # 0
                  THEN SubSeq(repoAt, 1, Index(repoAt, ":")-1) ELSE repoAt)
            ELSE IF col # 0 THEN SubSeq(path, 1, col-1)
            ELSE path
          reference ==
            IF at # 0 THEN SubSeq(path, at+1, Len(path))
            ELSE IF col # 0 THEN SubSeq(path, col+1, Len(path))
            ELSE <<>>
          refOk ==
            \/ Len(reference) = 0
            \/ isTag /\ ValidTag(reference)
            \/ ~isTag /\ IsDigest(reference)
      IN IF ValidRegistry(reg) /\ ValidRepository(repo) /\ refOk
         THEN [ok |-> TRUE,
               ref |-> [Registry |-> reg, Repository |-> repo, Reference |-> reference],
               extraTags |-> <<>>]
         ELSE ParseFailure

\* the string after default-registry prefixing (part_000 lines 66-79)
WithDefaultRegistry(s) ==
    LET refParts == Split(s, "/") IN
    IF Len(refParts) = 1 THEN DefaultRegistry \o <<"/">> \o s
    ELSE IF ~Contains(refParts[1], ":") /\ ~Contains(refParts[1], ".")
         THEN DefaultRegistry \o <<"/">> \o s
         ELSE s

\* ParseReference without the plain-digest case of lines 56-63
ParseReferenceNoDigestCase(s) ==
    LET refAndTags == Split(WithDefaultRegistry(s), ",")
        baseRef == RegistryParseReference(refAndTags[1])
    IN IF ~baseRef.ok THEN ParseFailure
       ELSE [baseRef EXCEPT !.extraTags = Tail(refAndTags)]

ParseReference(s) ==
    IF IsDigest(s)
    THEN [ok |-> TRUE,
          ref |-> [Registry |-> DefaultRegistry, Repository |-> DefaultRepository,
                   Reference |-> s],
          extraTags |-> <<>>]
    ELSE
      LET refAndTags == Split(WithDefaultRegistry(s), ",")
          baseRef == RegistryParseReference(refAndTags[1])
      IN IF ~baseRef.ok THEN ParseFailure
         ELSE [baseRef EXCEPT !.extraTags = Tail(refAndTags)]


(***************************************************************************)
(* Content store and the resolver functions of pkg/lib/repo.               *)
(*                                                                         *)
(* store.tags  : reference name -> Descriptor (store.Resolve)              *)
(* store.blobs : digest -> blob               (store.Fetch)                *)
(* A blob is a JSON document of one of the two shapes the code decodes,    *)
(* the JSON literal null, or bytes that are not JSON at all.               *)
(***************************************************************************)
ModelConfigMediaType  == "model-config"
ModelLayerMediaType   == "model-layer"
CodeLayerMediaType    == "code-layer"
DataSetLayerMediaType == "dataset-layer"
ManifestMediaType     == "oci-manifest"
OtherMediaType        == "other"

Descriptor(mt, dg) == [mediaType |-> mt, digest |-> dg]
ZeroDescriptor == Descriptor("", "")

\* a nil pointer, and the pointers to decoded documents
Nil == [isNil |-> TRUE]
IsNil(p) == p.isNil
ManifestPtr(cfg, layers) == [isNil |-> FALSE, Config |-> cfg, Layers |-> layers]
KitFilePtr(model, code, datasets) ==
    [isNil |-> FALSE, Model |-> model, Code |-> code, DataSets |-> datasets]

\* store.Resolve
Resolve(st, reference) ==
    IF reference \in DOMAIN st.tags
    THEN [err |-> "none", desc |-> st.tags[reference]]
    ELSE [err |-> "NotFound", desc |-> ZeroDescriptor]

\* content.FetchAll
FetchAll(st, desc) ==
    IF desc.digest \in DOMAIN st.blobs
    THEN [err |-> "none", bytes |-> st.blobs[desc.digest]]
    ELSE [err |-> "NotFound", bytes |-> [kind |-> "garbage"]]

\* json.Unmarshal(manifestBytes, &manifest), manifest a *ocispec.Manifest
\* pointing to a zero Manifest: the argument is a pointer to that pointer,
\* so the literal null sets the pointer itself to nil; an object of another
\* shape leaves the zero value.
UnmarshalManifest(bytes) ==
    CASE bytes.kind = "manifest" -> [err |-> "none", ptr |-> ManifestPtr(bytes.config, bytes.layers)]
      [] bytes.kind = "kitfile"  -> [err |-> "none", ptr |-> ManifestPtr(ZeroDescriptor, <<>>)]
      [] bytes.kind = "null"     -> [err |-> "none", ptr |-> Nil]
      [] OTHER                   -> [err |-> "ParseError", ptr |-> ManifestPtr(ZeroDescriptor, <<>>)]

\* json.Unmarshal(configBytes, config), config a *artifact.KitFile: null
\* has no effect on the struct pointed to
UnmarshalKitFile(bytes) ==
    CASE bytes.kind = "kitfile"  -> [err |-> "none", ptr |-> KitFilePtr(bytes.model, bytes.code, bytes.datasets)]
      [] bytes.kind = "manifest" -> [err |-> "none", ptr |-> KitFilePtr(<<>>, <<>>, <<>>)]
      [] bytes.kind = "null"     -> [err |-> "none", ptr |-> KitFilePtr(<<>>, <<>>, <<>>)]
      [] OTHER                   -> [err |-> "ParseError", ptr |-> KitFilePtr(<<>>, <<>>, <<>>)]

\* what a resolver function hands back: its results, or a panic
Returned(m, c, e) == [panic |-> FALSE, manifest |-> m, config |-> c, err |-> e]
Panicked == [panic |-> TRUE, manifest |-> Nil, config |-> Nil, err |-> "none"]

\* GetManifest without the check of manifest.Config.MediaType
GetManifestUnchecked(st, manifestDesc) ==
    LET fetched == FetchAll(st, manifestDesc)
        decoded == UnmarshalManifest(fetched.bytes)
    IN IF fetched.err # "none" THEN Returned(Nil, Nil, "NotFound")
       ELSE IF decoded.err # "none" THEN Returned(Nil, Nil, "ManifestParseError")
       ELSE IF IsNil(decoded.ptr) THEN Panicked
       ELSE Returned(decoded.ptr, Nil, "none")

GetManifest(st, manifestDesc) ==
    LET fetched == FetchAll(st, manifestDesc)
        decoded == UnmarshalManifest(fetched.bytes)
    IN IF fetched.err # "none" THEN Returned(Nil, Nil, "NotFound")
       ELSE IF decoded.err # "none" THEN Returned(Nil, Nil, "ManifestParseError")
       ELSE IF IsNil(decoded.ptr) THEN Panicked
       ELSE IF decoded.ptr.Config.mediaType # ModelConfigMediaType
            THEN Returned(Nil, Nil, "WrongArtifactType")
       ELSE Returned(decoded.ptr, Nil, "none")

GetConfig(st, configDesc) ==
    LET fetched == FetchAll(st, configDesc)
        decoded == UnmarshalKitFile(fetched.bytes)
    IN IF configDesc.mediaType # ModelConfigMediaType
       THEN Returned(Nil, Nil, "WrongArtifactType")
       ELSE IF fetched.err # "none" THEN Returned(Nil, Nil, "NotFound")
       ELSE IF decoded.err # "none" THEN Returned(Nil, Nil, "ConfigParseError")
       ELSE Returned(Nil, decoded.ptr, "none")

GetManifestAndConfig(st, manifestDesc) ==
    LET m == GetManifest(st, manifestDesc) IN
    IF m.panic THEN Panicked
    ELSE IF m.err # "none" THEN Returned(Nil, Nil, m.err)
    ELSE LET c == GetConfig(st, m.manifest.Config) IN
         IF c.err # "none" THEN Returned(Nil, Nil, c.err)
         ELSE Returned(m.manifest, c.config, "none")

ResolveManifest(st, reference) ==
    LET r == Resolve(st, reference) IN
    IF r.err # "none" THEN Returned(Nil, Nil, "NotFound")
    ELSE GetManifest(st, r.desc)

ResolveManifestAndConfig(st, reference) ==
    LET m == ResolveManifest(st, reference) IN
    IF m.panic THEN Panicked
    ELSE IF m.err # "none" THEN Returned(Nil, Nil, m.err)
    ELSE LET c == GetConfig(st, m.manifest.Config) IN
         IF c.err # "none" THEN Returned(Nil, Nil, c.err)
         ELSE Returned(m.manifest, c.config, "none")

\* ocispec.AnnotationRefName, the key of the reference-name annotation
AnnotationRefName == "org.opencontainers.image.ref.name"

\* manifest.Annotations[ocispec.AnnotationRefName]: a key that is absent
\* (or a nil map) reads as the empty string
RefNameOf(entry) ==
    IF AnnotationRefName \in DOMAIN entry.annotations
    THEN entry.annotations[AnnotationRefName]
    ELSE ""

\* the loop of lines 192-196 over the entries not yet visited, tags being
\* the slice built so far
RECURSIVE CollectTags(_, _, _)
CollectTags(manifests, desc, tags) ==
    IF manifests = <<>> THEN tags
    ELSE LET manifest_ == Head(manifests) IN
         IF manifest_.digest = desc.digest /\ RefNameOf(manifest_) # ""
         THEN CollectTags(Tail(manifests), desc, Append(tags, RefNameOf(manifest_)))
         ELSE CollectTags(Tail(manifests), desc, tags)

TagsReturned(tags, e) == [panic |-> FALSE, tags |-> tags, err |-> e]

\* GetTagsForDescriptor with the digests not compared
GetTagsForDescriptorAnyDigest(st, desc) ==
    IF st.indexErr THEN TagsReturned(<<>>, "GetIndex")
    ELSE LET named == SelectSeq(st.index, LAMBDA e : RefNameOf(e) # "") IN
         TagsReturned([i \in 1..Len(named) |-> RefNameOf(named[i])], "none")

GetTagsForDescriptor(st, desc) ==
    IF st.indexErr THEN TagsReturned(<<>>, "GetIndex")
    ELSE TagsReturned(CollectTags(st.index, desc, <<>>), "none")


(***************************************************************************)
(* Paths and the filesystem.  An absolute, cleaned path is the sequence of *)
(* its components; <<>> is "/".  A relative path string (a Kitfile path, a *)
(* tar header name) is the sequence of its components, ".." included.      *)
(***************************************************************************)
Cwd       == <<"w">>
UnpackDir == <<"w", "r">>          \* options.unpackDir, made absolute
DefaultKitFileName == "Kitfile"
EmptyString == <<"">>              \* the path string ""

IsPrefix(p, q) == Len(p) <= Len(q) /\ SubSeq(q, 1, Len(p)) = p
Parent(p) == IF p = <<>> THEN <<>> ELSE SubSeq(p, 1, Len(p) - 1)

\* filepath.Dir, the result resolved against the working directory
Dir(p) == IF p = EmptyString THEN Cwd ELSE Parent(p)

\* filepath.Join(dir, rel), cleaned: ".." removes the component before it
RECURSIVE Join(_, _)
Join(dir, rel) ==
    IF rel = <<>> THEN dir
    ELSE IF Head(rel) = ".." THEN Join(Parent(dir), Tail(rel))
    ELSE Join(Append(dir, Head(rel)), Tail(rel))

\* filesystem.PathExists (os.Stat of "" reports that nothing is there)
PathExists(f, p) == p \in DOMAIN f
IsDir(f, p) == p \in DOMAIN f /\ f[p] = "dir"
IsRegular(f, p) == p \in DOMAIN f /\ f[p] = "file"

\* filesystem.VerifySubpath(context, subDir)
VerifySubpath(context, subDir) ==
    LET full == Join(context, subDir) IN
    IF IsPrefix(context, full)
    THEN [err |-> "none", absPath |-> full]
    ELSE [err |-> "PathEscape", absPath |-> EmptyString]

Prefixes(p) == {SubSeq(p, 1, n) : n \in 0..Len(p)}

\* os.MkdirAll: fails, creating nothing, when a component is a file
MkdirAll(f, p) ==
    IF \E q \in Prefixes(p) : IsRegular(f, q)
    THEN [err |-> "Mkdir", fs |-> f, made |-> {}]
    ELSE [err |-> "none",
          fs |-> f @@ [q \in Prefixes(p) |-> "dir"],
          made |-> Prefixes(p) \ DOMAIN f]

\* os.OpenFile(p, O_CREATE|O_TRUNC|O_RDWR) and os.WriteFile: the parent must
\* be a directory and p must not be one
OpenFile(f, p) ==
    IF ~IsDir(f, Parent(p)) \/ IsDir(f, p)
    THEN [err |-> "Create", fs |-> f, made |-> {}]
    ELSE [err |-> "none", fs |-> (p :> "file") @@ f, made |-> {p}]


(***************************************************************************)
(* unpackModel (pkg/cmd/unpack/unpack.go), one invocation, step by step.   *)
(***************************************************************************)
Reference == "latest"              \* ref.Reference of the invocation

Step(op, path, type) == [op |-> op, path |-> path, type |-> type, copy |-> "none"]

\* resources: how many are open, and how many Close calls the running
\* unpackLayer and extractTar have deferred
NoHandles == [open |-> 0, deferred |-> 0]

\* a step opened r.opened resources and deferred r.deferred Close calls
AfterStep(h, r) == [open |-> h.open + r.opened, deferred |-> h.deferred + r.deferred]

\* unpackLayer returns: the deferred Close calls run
RunDeferred(h) == [open |-> h.open - h.deferred, deferred |-> 0]

\* the outcome r of a step that opened k resources and deferred no Close
WithoutDefer(r, k) ==
    [err |-> r.err, fs |-> r.fs, made |-> r.made, opened |-> k, deferred |-> 0]

\* the outcome r of a step that opened k resources, each followed by a
\* deferred Close (lines 131-135, 137-141, 195-199)
With(r, k) == [err |-> r.err, fs |-> r.fs, made |-> r.made, opened |-> k, deferred |-> k]

\* the error is recorded but the code goes on instead of returning
FailAndGoOn(e) == /\ pc' = pc
                  /\ err' = e

\* return err
Fail(e) == /\ pc' = "done"
           /\ err' = e

\* lines 43-50: store.Resolve, repo.GetManifestAndConfig
Begin ==
    /\ pc = "start"
    /\ LET r == Resolve(store, Reference)
           mc == GetManifestAndConfig(store, r.desc)
       IN \/ /\ cancelled
             /\ Fail("Cancelled")
             /\ UNCHANGED <<manifest, config>>
          \/ /\ r.err # "none"
             /\ Fail("Resolve")
             /\ UNCHANGED <<manifest, config>>
          \/ /\ r.err = "none"
             /\ mc.panic
             /\ pc' = "panic"
             /\ UNCHANGED <<err, manifest, config>>
          \/ /\ r.err = "none"
             /\ ~mc.panic
             /\ mc.err # "none"
             /\ Fail("ReadModel")
             /\ UNCHANGED <<manifest, config>>
          \/ /\ r.err = "none"
             /\ ~mc.panic
             /\ mc.err = "none"
             /\ manifest' = mc.manifest
             /\ config' = mc.config
             /\ pc' = "config"
             /\ UNCHANGED err
    /\ lastStep' = Step("begin", EmptyString, "none")
    /\ UNCHANGED <<options, fs, layerIdx, codeIdx, datasetIdx, extractDir,
                   entriesRead, cancelled, handles, fs0, written, fetchCalls>>
    /\ UNCHANGED <<parseVars, store, repoVars>>

\* unpackConfig without the test of lines 110-116: an existing config
\* document path is written over
unpackConfigOverExisting(f, unpackDir, overwrite, marshalled) ==
    LET configPath == Append(unpackDir, DefaultKitFileName)
        w == OpenFile(f, configPath)
    IN IF ~marshalled
       THEN [err |-> "Marshal", fs |-> f, made |-> {}]
       ELSE IF w.err # "none"
       THEN [err |-> "WriteConfig", fs |-> f, made |-> {}]
       ELSE w

\* unpackConfig (lines 108-128): the error it returns and the filesystem
\* it leaves; marshalled says whether config.MarshalToYAML() succeeded
unpackConfig(f, unpackDir, overwrite, marshalled) ==
    LET configPath == Append(unpackDir, DefaultKitFileName)
        w == OpenFile(f, configPath)
    IN IF PathExists(f, configPath) /\ ~overwrite
       THEN [err |-> "PathExists", fs |-> f, made |-> {}]
       ELSE IF PathExists(f, configPath) /\ ~IsRegular(f, configPath)
       THEN [err |-> "PathTypeConflict", fs |-> f, made |-> {}]
       ELSE IF ~marshalled
       THEN [err |-> "Marshal", fs |-> f, made |-> {}]
       ELSE IF w.err # "none"
       THEN [err |-> "WriteConfig", fs |-> f, made |-> {}]
       ELSE w

\* lines 52-56
ConfigStep ==
    /\ pc = "config"
    /\ IF options.unpackConfig
       THEN /\ \E marshalled \in BOOLEAN :
                 LET c == unpackConfig(fs, UnpackDir, options.overwrite, marshalled) IN
                 /\ fs' = c.fs
                 /\ written' = written \cup c.made
                 /\ IF c.err # "none"
                    THEN Fail(c.err)
                    ELSE pc' = "layers" /\ UNCHANGED err
            /\ lastStep' = Step("config", Append(UnpackDir, DefaultKitFileName), "file")
       ELSE /\ pc' = "layers"
            /\ lastStep' = Step("noconfig", EmptyString, "none")
            /\ UNCHANGED <<fs, written, err>>
    /\ UNCHANGED <<options, manifest, config, layerIdx, codeIdx, datasetIdx,
                   extractDir, entriesRead, cancelled, handles, fs0, fetchCalls>>
    /\ UNCHANGED <<parseVars, store, repoVars>>

\* the switch of lines 62-97 with the error of VerifySubpath dropped: the
\* joined path is used whether or not it stays inside the unpack directory
DispatchUnverified(desc, cfg, opts, cIdx, dIdx) ==
    LET continue == [act |-> "continue", err |-> "none", layerDir |-> EmptyString,
                     codeIdx |-> cIdx, datasetIdx |-> dIdx]
        panic == [continue EXCEPT !.act = "panic"]
        resolved(sub, c, d) ==
            [act |-> "unpack", err |-> "none", layerDir |-> Join(UnpackDir, sub),
             codeIdx |-> c, datasetIdx |-> d]
    IN CASE desc.mediaType = ModelLayerMediaType ->
              IF ~opts.unpackModels THEN continue
              ELSE resolved(cfg.Model, cIdx, dIdx)
         [] desc.mediaType = CodeLayerMediaType ->
              IF ~opts.unpackCode THEN continue
              ELSE IF cIdx >= Len(cfg.Code) THEN panic
              ELSE resolved(cfg.Code[cIdx + 1], cIdx + 1, dIdx)
         [] desc.mediaType = DataSetLayerMediaType ->
              IF ~opts.unpackDatasets THEN continue
              ELSE IF dIdx >= Len(cfg.DataSets) THEN panic
              ELSE resolved(cfg.DataSets[dIdx + 1], cIdx, dIdx + 1)
         [] OTHER ->
              [act |-> "unpack", err |-> "none", layerDir |-> EmptyString,
               codeIdx |-> cIdx, datasetIdx |-> dIdx]

\* the switch of lines 62-97 without the tests of options.unpackConf:
\* every layer of a known kind is unpacked
DispatchEveryKind(desc, cfg, opts, cIdx, dIdx) ==
    LET continue == [act |-> "continue", err |-> "none", layerDir |-> EmptyString,
                     codeIdx |-> cIdx, datasetIdx |-> dIdx]
        panic == [continue EXCEPT !.act = "panic"]
        resolved(sub, c, d) ==
            LET v == VerifySubpath(UnpackDir, sub) IN
            IF v.err # "none"
            THEN [continue EXCEPT !.act = "return", !.err = v.err]
            ELSE [act |-> "unpack", err |-> "none", layerDir |-> v.absPath,
                  codeIdx |-> c, datasetIdx |-> d]
    IN CASE desc.mediaType = ModelLayerMediaType ->
              resolved(cfg.Model, cIdx, dIdx)
         [] desc.mediaType = CodeLayerMediaType ->
              IF cIdx >= Len(cfg.Code) THEN panic
              ELSE resolved(cfg.Code[cIdx + 1], cIdx + 1, dIdx)
         [] desc.mediaType = DataSetLayerMediaType ->
              IF dIdx >= Len(cfg.DataSets) THEN panic
              ELSE resolved(cfg.DataSets[dIdx + 1], cIdx, dIdx + 1)
         [] OTHER ->
              [act |-> "unpack", err |-> "none", layerDir |-> EmptyString,
               codeIdx |-> cIdx, datasetIdx |-> dIdx]

\* lines 62-97: the switch on layerDesc.MediaType.  The result says how
\* the iteration goes on: "continue", an index out of range, an error
\* returned, or the call of unpackLayer with layerDir
Dispatch(desc, cfg, opts, cIdx, dIdx) ==
    LET continue == [act |-> "continue", err |-> "none", layerDir |-> EmptyString,
                     codeIdx |-> cIdx, datasetIdx |-> dIdx]
        panic == [continue EXCEPT !.act = "panic"]
        resolved(sub, c, d) ==
            LET v == VerifySubpath(UnpackDir, sub) IN
            IF v.err # "none"
            THEN [continue EXCEPT !.act = "return", !.err = v.err]
            ELSE [act |-> "unpack", err |-> "none", layerDir |-> v.absPath,
                  codeIdx |-> c, datasetIdx |-> d]
    IN CASE desc.mediaType = ModelLayerMediaType ->
              IF ~opts.unpackModels THEN continue
              ELSE resolved(cfg.Model, cIdx, dIdx)
         [] desc.mediaType = CodeLayerMediaType ->
              IF ~opts.unpackCode THEN continue
              ELSE IF cIdx >= Len(cfg.Code) THEN panic
              ELSE resolved(cfg.Code[cIdx + 1], cIdx + 1, dIdx)
         [] desc.mediaType = DataSetLayerMediaType ->
              IF ~opts.unpackDatasets THEN continue
              ELSE IF dIdx >= Len(cfg.DataSets) THEN panic
              ELSE resolved(cfg.DataSets[dIdx + 1], cIdx, dIdx + 1)
         [] OTHER ->
              [act |-> "unpack", err |-> "none", layerDir |-> EmptyString,
               codeIdx |-> cIdx, datasetIdx |-> dIdx]

\* what store.Fetch finds for a layer: nothing, bytes that are not gzip, or
\* a gzipped archive; a cancelled ctx may make it fail
LayerBlobs == {"missing", "notgzip", "archive"}

\* unpackLayer without the test of lines 144-149: an existing unpackPath
\* is accepted whatever overwrite says
unpackLayerOverExisting(f, blob, unpackPath, overwrite) ==
    LET unpackDir == Dir(unpackPath)
        m == MkdirAll(f, unpackDir)
    IN IF blob = "cancelled" THEN With([err |-> "Cancelled", fs |-> f, made |-> {}], 0)
       ELSE IF blob = "missing" THEN With([err |-> "Fetch", fs |-> f, made |-> {}], 0)
       ELSE IF blob = "notgzip" THEN With([err |-> "Gzip", fs |-> f, made |-> {}], 1)
       ELSE With(m, 2)

\* unpackLayer up to the call of extractTar (lines 130-153)
unpackLayer(f, blob, unpackPath, overwrite) ==
    LET unpackDir == Dir(unpackPath)
        m == MkdirAll(f, unpackDir)
    IN IF blob = "cancelled" THEN With([err |-> "Cancelled", fs |-> f, made |-> {}], 0)
       ELSE IF blob = "missing" THEN With([err |-> "Fetch", fs |-> f, made |-> {}], 0)
       ELSE IF blob = "notgzip" THEN With([err |-> "Gzip", fs |-> f, made |-> {}], 1)
       ELSE IF PathExists(f, unpackPath) /\ ~overwrite
       THEN With([err |-> "PathExists", fs |-> f, made |-> {}], 2)
       ELSE With(m, 2)

\* the loop with one index for both lists: a code layer and a dataset
\* layer each advance codeIdx and datasetIdx
LayerStepSharedIndex ==
    /\ pc = "layers"
    /\ layerIdx <= Len(manifest.Layers)
    /\ LET desc == manifest.Layers[layerIdx]
           d == Dispatch(desc, config, options, codeIdx, datasetIdx)
       IN
       \/ /\ d.act = "continue"
          /\ layerIdx' = layerIdx + 1
          /\ lastStep' = Step("continue", EmptyString, "none")
          /\ UNCHANGED <<pc, err, fs, written, codeIdx, datasetIdx, extractDir,
                         entriesRead, handles, fetchCalls>>
       \/ /\ d.act = "panic"
          /\ pc' = "panic"
          /\ lastStep' = Step("index", EmptyString, "none")
          /\ UNCHANGED <<err, fs, written, layerIdx, codeIdx, datasetIdx,
                         extractDir, entriesRead, handles, fetchCalls>>
       \/ /\ d.act = "return"
          /\ Fail(d.err)
          /\ lastStep' = Step("resolve", EmptyString, "none")
          /\ UNCHANGED <<fs, written, layerIdx, codeIdx, datasetIdx, extractDir,
                         entriesRead, handles, fetchCalls>>
       \/ /\ d.act = "unpack"
          /\ \E blob \in LayerBlobs \cup (IF cancelled THEN {"cancelled"} ELSE {}) :
               LET u == unpackLayer(fs, blob, d.layerDir, options.overwrite) IN
               /\ fs' = u.fs
               /\ written' = written \cup u.made
               /\ IF u.err # "none"
                  THEN /\ Fail(u.err)
                       /\ handles' = RunDeferred(AfterStep(handles, u))
                       /\ UNCHANGED <<extractDir, entriesRead>>
                  ELSE /\ pc' = "extract"
                       /\ extractDir' = Dir(d.layerDir)
                       /\ entriesRead' = 0
                       /\ handles' = AfterStep(handles, u)
                       /\ UNCHANGED err
          /\ codeIdx' = d.codeIdx + (d.datasetIdx - datasetIdx)
          /\ datasetIdx' = d.datasetIdx + (d.codeIdx - codeIdx)
          /\ fetchCalls' = Append(fetchCalls, layerIdx)
          /\ lastStep' = Step("layer", d.layerDir, "none")
          /\ UNCHANGED layerIdx
    /\ UNCHANGED <<options, manifest, config, cancelled, fs0>>
    /\ UNCHANGED <<parseVars, store, repoVars>>

\* one iteration of the loop of lines 61-101, up to the call of extractTar
LayerStep ==
    /\ pc = "layers"
    /\ layerIdx <= Len(manifest.Layers)
    /\ LET desc == manifest.Layers[layerIdx]
           d == Dispatch(desc, config, options, codeIdx, datasetIdx)
       IN
       \/ /\ d.act = "continue"
          /\ layerIdx' = layerIdx + 1
          /\ lastStep' = Step("continue", EmptyString, "none")
          /\ UNCHANGED <<pc, err, fs, written, codeIdx, datasetIdx, extractDir,
                         entriesRead, handles, fetchCalls>>
       \/ /\ d.act = "panic"
          /\ pc' = "panic"
          /\ lastStep' = Step("index", EmptyString, "none")
          /\ UNCHANGED <<err, fs, written, layerIdx, codeIdx, datasetIdx,
                         extractDir, entriesRead, handles, fetchCalls>>
       \/ /\ d.act = "return"
          /\ Fail(d.err)
          /\ lastStep' = Step("resolve", EmptyString, "none")
          /\ UNCHANGED <<fs, written, layerIdx, codeIdx, datasetIdx, extractDir,
                         entriesRead, handles, fetchCalls>>
       \/ /\ d.act = "unpack"
          /\ \E blob \in LayerBlobs \cup (IF cancelled THEN {"cancelled"} ELSE {}) :
               LET u == unpackLayer(fs, blob, d.layerDir, options.overwrite) IN
               /\ fs' = u.fs
               /\ written' = written \cup u.made
               /\ IF u.err # "none"
                  THEN /\ Fail(u.err)
                       /\ handles' = RunDeferred(AfterStep(handles, u))
                       /\ UNCHANGED <<extractDir, entriesRead>>
                  ELSE /\ pc' = "extract"
                       /\ extractDir' = Dir(d.layerDir)
                       /\ entriesRead' = 0
                       /\ handles' = AfterStep(handles, u)
                       /\ UNCHANGED err
          /\ codeIdx' = d.codeIdx
          /\ datasetIdx' = d.datasetIdx
          /\ fetchCalls' = Append(fetchCalls, layerIdx)
          /\ lastStep' = Step("layer", d.layerDir, "none")
          /\ UNCHANGED layerIdx
    /\ UNCHANGED <<options, manifest, config, cancelled, fs0>>
    /\ UNCHANGED <<parseVars, store, repoVars>>

\* bound on the number of entries of one archive
MaxEntries == 2

\* tar headers: header.Name, header.Typeflag, and for a regular file how
\* io.Copy ends: all header.Size bytes copied, fewer, or a read error
Header(n, t, c) == [name |-> n, type |-> t, copy |-> c]
Headers ==
    {Header(<<"a">>, "dir", "full"),
     Header(<<"a", "b">>, "reg", "full"),
     Header(<<"a", "b">>, "reg", "short"),
     Header(<<"a", "b">>, "reg", "error"),
     Header(<<"..", "x">>, "reg", "full"),
     Header(<<"a">>, "symlink", "full")}

\* an entry named like the config document
KitFileEntry == Header(<<DefaultKitFileName>>, "reg", "full")

\* the headers the archive of the layer being extracted can hold: archives
\* with an entry named like the config document are tried for modelkits
\* of one layer
ArchiveHeaders ==
    IF Len(manifest.Layers) = 1 THEN Headers \cup {KitFileEntry} ELSE Headers

\* extractTar with entries of other kinds passed over instead of refused
extractEntrySkippingOthers(f, dir, header, overwrite) ==
    LET outPath == Join(dir, header.name)
        m == MkdirAll(f, outPath)
        o == OpenFile(f, outPath)
    IN CASE header.type = "dir" ->
              IF PathExists(f, outPath) /\ ~overwrite
              THEN With([err |-> "PathExists", fs |-> f, made |-> {}], 0)
              ELSE IF PathExists(f, outPath) /\ ~IsDir(f, outPath)
              THEN With([err |-> "PathTypeConflict", fs |-> f, made |-> {}], 0)
              ELSE With(m, 0)
         [] header.type = "reg" ->
              IF PathExists(f, outPath) /\ ~overwrite
              THEN With([err |-> "PathExists", fs |-> f, made |-> {}], 0)
              ELSE IF PathExists(f, outPath) /\ ~IsRegular(f, outPath)
              THEN With([err |-> "PathTypeConflict", fs |-> f, made |-> {}], 0)
              ELSE IF o.err # "none" THEN With(o, 0)
              ELSE IF header.copy = "error" THEN With([o EXCEPT !.err = "Write"], 1)
              ELSE IF header.copy = "short" THEN With([o EXCEPT !.err = "ShortWrite"], 1)
              ELSE With(o, 1)
         [] OTHER -> With([err |-> "none", fs |-> f, made |-> {}], 0)

\* extractTar without the comparison of written and header.Size
extractEntryAnySize(f, dir, header, overwrite) ==
    LET outPath == Join(dir, header.name)
        m == MkdirAll(f, outPath)
        o == OpenFile(f, outPath)
    IN CASE header.type = "dir" ->
              IF PathExists(f, outPath) /\ ~overwrite
              THEN With([err |-> "PathExists", fs |-> f, made |-> {}], 0)
              ELSE IF PathExists(f, outPath) /\ ~IsDir(f, outPath)
              THEN With([err |-> "PathTypeConflict", fs |-> f, made |-> {}], 0)
              ELSE With(m, 0)
         [] header.type = "reg" ->
              IF PathExists(f, outPath) /\ ~overwrite
              THEN With([err |-> "PathExists", fs |-> f, made |-> {}], 0)
              ELSE IF PathExists(f, outPath) /\ ~IsRegular(f, outPath)
              THEN With([err |-> "PathTypeConflict", fs |-> f, made |-> {}], 0)
              ELSE IF o.err # "none" THEN With(o, 0)
              ELSE IF header.copy = "error" THEN With([o EXCEPT !.err = "Write"], 1)
              ELSE With(o, 1)
         [] OTHER -> With([err |-> "Unsupported", fs |-> f, made |-> {}], 0)

\* extractTar writing regular files over whatever exists, as if overwrite
\* were set
extractEntryOverwriting(f, dir, header, overwrite) ==
    LET outPath == Join(dir, header.name)
        m == MkdirAll(f, outPath)
        o == OpenFile(f, outPath)
    IN CASE header.type = "dir" ->
              IF PathExists(f, outPath) /\ ~overwrite
              THEN With([err |-> "PathExists", fs |-> f, made |-> {}], 0)
              ELSE IF PathExists(f, outPath) /\ ~IsDir(f, outPath)
              THEN With([err |-> "PathTypeConflict", fs |-> f, made |-> {}], 0)
              ELSE With(m, 0)
         [] header.type = "reg" ->
              IF PathExists(f, outPath) /\ ~IsRegular(f, outPath)
              THEN With([err |-> "PathTypeConflict", fs |-> f, made |-> {}], 0)
              ELSE IF o.err # "none" THEN With(o, 0)
              ELSE IF header.copy = "error" THEN With([o EXCEPT !.err = "Write"], 1)
              ELSE IF header.copy = "short" THEN With([o EXCEPT !.err = "ShortWrite"], 1)
              ELSE With(o, 1)
         [] OTHER -> With([err |-> "Unsupported", fs |-> f, made |-> {}], 0)

\* one iteration of the loop of extractTar for a header (lines 167-211)
extractEntry(f, dir, header, overwrite) ==
    LET outPath == Join(dir, header.name)
        m == MkdirAll(f, outPath)
        o == OpenFile(f, outPath)
    IN CASE header.type = "dir" ->
              IF PathExists(f, outPath) /\ ~overwrite
              THEN With([err |-> "PathExists", fs |-> f, made |-> {}], 0)
              ELSE IF PathExists(f, outPath) /\ ~IsDir(f, outPath)
              THEN With([err |-> "PathTypeConflict", fs |-> f, made |-> {}], 0)
              ELSE With(m, 0)
         [] header.type = "reg" ->
              IF PathExists(f, outPath) /\ ~overwrite
              THEN With([err |-> "PathExists", fs |-> f, made |-> {}], 0)
              ELSE IF PathExists(f, outPath) /\ ~IsRegular(f, outPath)
              THEN With([err |-> "PathTypeConflict", fs |-> f, made |-> {}], 0)
              ELSE IF o.err # "none" THEN With(o, 0)
              ELSE IF header.copy = "error" THEN With([o EXCEPT !.err = "Write"], 1)
              ELSE IF header.copy = "short" THEN With([o EXCEPT !.err = "ShortWrite"], 1)
              ELSE With(o, 1)
         [] OTHER -> With([err |-> "Unsupported", fs |-> f, made |-> {}], 0)

\* tr.Next() returns a header and extractTar handles it
ExtractEntry ==
    /\ pc = "extract"
    /\ entriesRead < MaxEntries
    /\ \E header \in ArchiveHeaders :
         LET e == extractEntry(fs, extractDir, header, options.overwrite) IN
         /\ fs' = e.fs
         /\ written' = written \cup e.made
         /\ IF e.err # "none"
            THEN Fail(e.err) /\ handles' = RunDeferred(AfterStep(handles, e))
            ELSE handles' = AfterStep(handles, e) /\ UNCHANGED <<pc, err>>
         /\ lastStep' = [Step("entry", Join(extractDir, header.name),
                              IF header.type = "reg" THEN "file" ELSE header.type)
                           EXCEPT !.copy = IF header.type = "reg" THEN header.copy
                                           ELSE "none"]
    /\ entriesRead' = entriesRead + 1
    /\ UNCHANGED <<options, manifest, config, layerIdx, codeIdx, datasetIdx,
                   extractDir, cancelled, fs0, fetchCalls>>
    /\ UNCHANGED <<parseVars, store, repoVars>>

\* tr.Next() returns an error: the archive is corrupt, or the stream was
\* cut when ctx was cancelled (lines 160-166)
ExtractReadError ==
    /\ pc = "extract"
    /\ \E e \in {"TarRead"} \cup (IF cancelled THEN {"Cancelled"} ELSE {}) : Fail(e)
    /\ handles' = RunDeferred(handles)
    /\ lastStep' = Step("readerror", EmptyString, "none")
    /\ UNCHANGED <<options, fs, manifest, config, layerIdx, codeIdx, datasetIdx,
                   extractDir, entriesRead, cancelled, fs0, written, fetchCalls>>
    /\ UNCHANGED <<parseVars, store, repoVars>>

\* tr.Next() returns io.EOF: extractTar and unpackLayer return nil and the
\* loop of unpackModel goes to the next layer
ExtractEOF ==
    /\ pc = "extract"
    /\ pc' = "layers"
    /\ layerIdx' = layerIdx + 1
    /\ handles' = RunDeferred(handles)
    /\ lastStep' = Step("eof", EmptyString, "none")
    /\ UNCHANGED <<options, fs, err, manifest, config, codeIdx, datasetIdx,
                   extractDir, entriesRead, cancelled, fs0, written, fetchCalls>>
    /\ UNCHANGED <<parseVars, store, repoVars>>

\* lines 102-105: the loop is over, return nil
ReturnNil ==
    /\ pc = "layers"
    /\ layerIdx > Len(manifest.Layers)
    /\ pc' = "done"
    /\ lastStep' = Step("return", EmptyString, "none")
    /\ UNCHANGED <<options, fs, err, manifest, config, layerIdx, codeIdx,
                   datasetIdx, extractDir, entriesRead, cancelled, handles, fs0,
                   written, fetchCalls>>
    /\ UNCHANGED <<parseVars, store, repoVars>>

\* the caller cancels ctx while unpackModel runs
Cancel ==
    /\ pc \notin {"done", "panic"}
    /\ ~cancelled
    /\ cancelled' = TRUE
    /\ UNCHANGED <<options, fs, pc, err, manifest, config, layerIdx, codeIdx,
                   datasetIdx, extractDir, entriesRead, handles, fs0, written,
                   fetchCalls, lastStep>>
    /\ UNCHANGED <<parseVars, store, repoVars>>

(***************************************************************************)
(* Inputs of an invocation: the store, the options, the filesystem.        *)
(***************************************************************************)
\* bound on the number of layers of a manifest
MaxLayers == 2

LayerMediaTypes ==
    {ModelLayerMediaType, CodeLayerMediaType, DataSetLayerMediaType, OtherMediaType}
LayerDigest(i) == "layer" \o ToString(i)
LayerSeqs ==
    UNION {{[i \in 1..n |-> Descriptor(ts[i], LayerDigest(i))] :
               ts \in [1..n -> LayerMediaTypes]} : n \in 0..MaxLayers}

\* Kitfile paths: inside the unpack directory, or leaving it
ModelPaths == {<<"a", "b">>, <<"..", "x">>}
CodeLists  == {<< <<"a">>, <<"b">> >>, << <<"b">>, <<"..", "x">> >>}
DataLists  == {<< <<"a">> >>}

ManifestBlob(cfg, layers) == [kind |-> "manifest", config |-> cfg, layers |-> layers]
KitFileBlob(model, code, datasets) ==
    [kind |-> "kitfile", model |-> model, code |-> code, datasets |-> datasets]

ManifestDesc == Descriptor(ManifestMediaType, "m")
ConfigDesc   == Descriptor(ModelConfigMediaType, "c")

\* stores holding a modelkit under Reference
ModelKitStores ==
    {[tags |-> (Reference :> ManifestDesc),
      blobs |-> ("m" :> ManifestBlob(ConfigDesc, layers)) @@
                ("c" :> KitFileBlob(model, code, datasets))] :
        layers \in LayerSeqs, model \in ModelPaths, code \in CodeLists,
        datasets \in DataLists}

\* stores in which Reference is missing or is not a readable modelkit
BrokenStores ==
    {[tags |-> <<>>, blobs |-> <<>>],
     [tags |-> (Reference :> ManifestDesc), blobs |-> <<>>],
     [tags |-> (Reference :> ManifestDesc), blobs |-> ("m" :> [kind |-> "null"])],
     [tags |-> (Reference :> ManifestDesc), blobs |-> ("m" :> [kind |-> "garbage"])],
     [tags |-> (Reference :> ManifestDesc),
      blobs |-> ("m" :> ManifestBlob(Descriptor(OtherMediaType, "c"), <<>>))],
     [tags |-> (Reference :> ManifestDesc),
      blobs |-> ("m" :> ManifestBlob(ConfigDesc, <<>>))]}

Options ==
    [unpackConfig : BOOLEAN, unpackModels : BOOLEAN, unpackCode : BOOLEAN,
     unpackDatasets : BOOLEAN, overwrite : BOOLEAN]

\* every kind of layer is selected
AllKinds(o) == o.unpackModels /\ o.unpackCode /\ o.unpackDatasets

\* exactly one kind of layer is excluded
OneKindExcluded(o) ==
    \/ ~o.unpackModels /\ o.unpackCode /\ o.unpackDatasets
    \/ o.unpackModels /\ ~o.unpackCode /\ o.unpackDatasets
    \/ o.unpackModels /\ o.unpackCode /\ ~o.unpackDatasets

DirsOf(ps) == [p \in ps |-> "dir"]
FSBase == DirsOf({<<>>, Cwd})
FSRoot == DirsOf({UnpackDir}) @@ FSBase
InitialFS ==
    {FSBase,
     FSRoot,
     (<<"w", "r", "a">> :> "dir") @@ (<<"w", "r", "Kitfile">> :> "file") @@ FSRoot,
     (<<"w", "r", "a">> :> "file") @@ (<<"w", "r", "Kitfile">> :> "dir") @@ FSRoot}

NoStep == Step("none", EmptyString, "none")

ParseIdle == /\ refString = <<>>
             /\ parseOut = [called |-> FALSE, res |-> ParseFailure]
RepoIdle == /\ repoCall = [fn |-> "none", arg |-> ZeroDescriptor]
            /\ repoOut = [called |-> FALSE, out |-> Returned(Nil, Nil, "none")]
UnpackIdle ==
    /\ options = [unpackConfig |-> FALSE, unpackModels |-> FALSE, unpackCode |-> FALSE,
                  unpackDatasets |-> FALSE, overwrite |-> FALSE]
    /\ fs = FSBase
    /\ fs0 = FSBase
    /\ pc = "idle"
    /\ err = "none"
    /\ manifest = Nil
    /\ config = Nil
    /\ layerIdx = 1
    /\ codeIdx = 0
    /\ datasetIdx = 0
    /\ extractDir = EmptyString
    /\ entriesRead = 0
    /\ cancelled = FALSE
    /\ handles = NoHandles
    /\ written = {}
    /\ fetchCalls = <<>>
    /\ lastStep = NoStep

Init ==
    /\ ParseIdle
    /\ RepoIdle
    /\ \/ /\ store \in ModelKitStores
          /\ options \in Options
          /\ fs \in InitialFS
          /\ \/ AllKinds(options)
             \/ OneKindExcluded(options) /\ options.unpackConfig /\ fs = FSRoot
       \/ /\ store \in BrokenStores
          /\ options = [unpackConfig |-> TRUE, unpackModels |-> TRUE, unpackCode |-> TRUE,
                        unpackDatasets |-> TRUE, overwrite |-> FALSE]
          /\ fs = FSRoot
    /\ fs0 = fs
    /\ pc = "start"
    /\ err = "none"
    /\ manifest = Nil
    /\ config = Nil
    /\ layerIdx = 1
    /\ codeIdx = 0
    /\ datasetIdx = 0
    /\ extractDir = EmptyString
    /\ entriesRead = 0
    /\ cancelled = FALSE
    /\ handles = NoHandles
    /\ written = {}
    /\ fetchCalls = <<>>
    /\ lastStep = NoStep

Next ==
    \/ Begin
    \/ ConfigStep
    \/ LayerStep
    \/ ExtractEntry
    \/ ExtractReadError
    \/ ExtractEOF
    \/ ReturnNil

Spec == Init /\ [][Next]_vars

\* the same invocation with a caller that may cancel ctx
NextCancel ==
    \/ Next
    \/ Cancel

\* the invocations cancellation is tried on: every modelkit, every kind
\* selected, an empty unpack directory
InitCancel ==
    /\ Init
    /\ store \in ModelKitStores
    /\ AllKinds(options)
    /\ options.unpackConfig
    /\ fs = FSRoot

SpecCancel == InitCancel /\ [][NextCancel]_vars

(***************************************************************************)
(* ParseReference on bounded reference strings.                            *)
(***************************************************************************)
\* bound on the number of symbols of a reference string
MaxSyms == 4

RefStrings == UNION {[1..n -> Symbols] : n \in 1..MaxSyms}

\* the call ParseReference(refString)
CallParseReference ==
    /\ ~parseOut.called
    /\ parseOut' = [called |-> TRUE, res |-> ParseReference(refString)]
    /\ UNCHANGED <<refString, store, repoVars, unpackVars>>

InitParse ==
    /\ refString \in RefStrings
    /\ parseOut = [called |-> FALSE, res |-> ParseFailure]
    /\ RepoIdle
    /\ UnpackIdle
    /\ store = [tags |-> <<>>, blobs |-> <<>>]

NextParse == CallParseReference

SpecParse == InitParse /\ [][NextParse]_vars

(***************************************************************************)
(* The resolver functions called on the stores a caller can meet.          *)
(***************************************************************************)
OneLayer == <<Descriptor(ModelLayerMediaType, LayerDigest(1))>>
SomeKitFile == KitFileBlob(<<"a">>, <<>>, <<>>)

\* what can be stored under the digest "m" and under the digest "c"
RepoBlobs ==
    {[kind |-> "null"], [kind |-> "garbage"], SomeKitFile}
      \cup {ManifestBlob(cfg, layers) :
              cfg \in {ConfigDesc, Descriptor(OtherMediaType, "c"),
                       Descriptor(ManifestMediaType, "m")},
              layers \in {<<>>, OneLayer}}

Stored(dg) == {<<>>} \cup {(dg :> b) : b \in RepoBlobs}

RepoStores ==
    {[tags |-> t, blobs |-> mb @@ cb] :
        t \in {<<>>, (Reference :> ManifestDesc), (Reference :> ConfigDesc)},
        mb \in Stored("m"), cb \in Stored("c")}

RepoDescs == {ManifestDesc, ConfigDesc, Descriptor(OtherMediaType, "c")}
RepoRefs  == {Reference, "v2"}

Called(fn, arg, out) ==
    /\ repoCall' = [fn |-> fn, arg |-> arg]
    /\ repoOut' = [called |-> TRUE, out |-> out]
    /\ UNCHANGED <<parseVars, store, unpackVars>>

CallGetManifest ==
    \E d \in RepoDescs : Called("GetManifest", d, GetManifest(store, d))

CallGetConfig ==
    \E d \in RepoDescs : Called("GetConfig", d, GetConfig(store, d))

CallGetManifestAndConfig ==
    \E d \in RepoDescs :
        Called("GetManifestAndConfig", d, GetManifestAndConfig(store, d))

CallResolveManifest ==
    \E r \in RepoRefs :
        Called("ResolveManifest", Descriptor("", r), ResolveManifest(store, r))

CallResolveManifestAndConfig ==
    \E r \in RepoRefs :
        Called("ResolveManifestAndConfig", Descriptor("", r),
               ResolveManifestAndConfig(store, r))

InitRepo ==
    /\ ParseIdle
    /\ RepoIdle
    /\ UnpackIdle
    /\ store \in RepoStores

NextRepo ==
    \/ CallGetManifest
    \/ CallGetConfig
    \/ CallGetManifestAndConfig
    \/ CallResolveManifest
    \/ CallResolveManifestAndConfig

SpecRepo == InitRepo /\ [][NextRepo]_vars

(***************************************************************************)
(* GetTagsForDescriptor called on the indexes a local store can hold.      *)
(***************************************************************************)
\* bound on the number of entries of the index
MaxIndex == 3

\* index entries: a digest and annotations without a reference name, with
\* an empty one, or with a tag
IndexAnnotations ==
    {<<>>, (AnnotationRefName :> ""), (AnnotationRefName :> "v1"),
     (AnnotationRefName :> "v2")}
IndexEntries == [digest : {"m", "n"}, annotations : IndexAnnotations]
Indexes == UNION {[1..n -> IndexEntries] : n \in 0..MaxIndex}

\* local stores: GetIndex() returns the index, or fails
TagStores ==
    {[tags |-> <<>>, blobs |-> <<>>, index |-> idx, indexErr |-> e] :
        idx \in Indexes, e \in BOOLEAN}

TagDescs == {ManifestDesc, Descriptor(ManifestMediaType, "n"),
             Descriptor(ManifestMediaType, "o")}

CallGetTagsForDescriptor ==
    \E d \in TagDescs :
        Called("GetTagsForDescriptor", d, GetTagsForDescriptor(store, d))

InitTags ==
    /\ ParseIdle
    /\ RepoIdle
    /\ UnpackIdle
    /\ store \in TagStores

NextTags == CallGetTagsForDescriptor

SpecTags == InitTags /\ [][NextTags]_vars

(***************************************************************************)
(* Properties of ParseReference (SpecParse).                               *)
(***************************************************************************)
\* an input "org/repo...": at least two segments, the first one without
\* "." and without ":"
IsOrgRepoForm(s) ==
    LET refParts == Split(s, "/") IN
    /\ Len(refParts) >= 2
    /\ ~Contains(refParts[1], ":")
    /\ ~Contains(refParts[1], ".")

\* C6: default-registry prefixing is idempotent: an input org/repo whose
\* first segment has neither "." nor ":" parses to the same registry,
\* repository, reference and extra tags as "localhost/" followed by it.
C6_PrefixIdempotent ==
    (parseOut.called /\ IsOrgRepoForm(refString))
        => parseOut.res = ParseReference(DefaultRegistry \o <<"/">> \o refString)

\* the call has returned a Reference and no error
ParseSucceeded == parseOut.called /\ parseOut.res.ok

\* the result of ParseReference for a plain digest
DigestOnlyResult(d) ==
    [ok |-> TRUE,
     ref |-> [Registry |-> DefaultRegistry, Repository |-> DefaultRepository,
              Reference |-> d],
     extraTags |-> <<>>]

\* C11, as claimed: whenever ParseReference succeeds, registry and
\* repository are non-empty and the reference field is a valid tag or a
\* content digest; a digest-only input D gives exactly localhost, "_", D
\* and no extra tags.
C11_TagOrDigest ==
    ParseSucceeded =>
        /\ parseOut.res.ref.Registry # <<>>
        /\ parseOut.res.ref.Repository # <<>>
        /\ ValidTag(parseOut.res.ref.Reference) \/ IsDigest(parseOut.res.ref.Reference)
        /\ IsDigest(refString) => parseOut.res = DigestOnlyResult(refString)

\* C11, amended: whenever ParseReference succeeds, registry and repository
\* are non-empty and the reference field is empty (the input names no tag
\* and no digest), a valid tag, or a content digest; a digest-only input D
\* gives exactly localhost, "_", D and no extra tags.
C11_EmptyTagOrDigest ==
    ParseSucceeded =>
        /\ parseOut.res.ref.Registry # <<>>
        /\ parseOut.res.ref.Repository # <<>>
        /\ \/ parseOut.res.ref.Reference = <<>>
           \/ ValidTag(parseOut.res.ref.Reference)
           \/ IsDigest(parseOut.res.ref.Reference)
        /\ IsDigest(refString) => parseOut.res = DigestOnlyResult(refString)

\* a plain digest has been parsed
C11_Witness ==
    /\ ParseSucceeded
    /\ IsDigest(refString)
    /\ parseOut.res.ref.Reference = refString

(***************************************************************************)
(* Properties of the resolver functions (SpecRepo).                        *)
(***************************************************************************)
Composite == {"GetManifestAndConfig", "ResolveManifestAndConfig"}
ManifestReturning ==
    {"GetManifest", "ResolveManifest", "GetManifestAndConfig",
     "ResolveManifestAndConfig"}

\* C9: GetManifestAndConfig and ResolveManifestAndConfig hand back either
\* a manifest and a config, both non-nil, with no error, or an error with
\* neither of them; never one without the other, whatever the store holds.
C9_BothOrError ==
    (repoOut.called /\ repoCall.fn \in Composite)
        => /\ ~repoOut.out.panic
           /\ \/ /\ repoOut.out.err = "none"
                 /\ ~IsNil(repoOut.out.manifest)
                 /\ ~IsNil(repoOut.out.config)
              \/ /\ repoOut.out.err # "none"
                 /\ IsNil(repoOut.out.manifest)
                 /\ IsNil(repoOut.out.config)

\* the descriptor the call reads the manifest from
CalledDesc ==
    IF repoCall.fn \in {"ResolveManifest", "ResolveManifestAndConfig"}
    THEN Resolve(store, repoCall.arg.digest).desc
    ELSE repoCall.arg

\* the call reads a well-formed manifest that is stored in the store
ReadsStoredManifest ==
    /\ repoOut.called
    /\ repoCall.fn \in ManifestReturning
    /\ CalledDesc.digest \in DOMAIN store.blobs
    /\ store.blobs[CalledDesc.digest].kind = "manifest"

\* C10: for a well-formed stored manifest whose config descriptor is not
\* of the model-config media type, GetManifest, ResolveManifest,
\* GetManifestAndConfig and ResolveManifestAndConfig fail with the
\* wrong-artifact-type error and return no manifest; a manifest is only
\* returned when its config media type is the model-config type.
C10_WrongArtifactType ==
    /\ (ReadsStoredManifest
          /\ store.blobs[CalledDesc.digest].config.mediaType # ModelConfigMediaType)
         => /\ ~repoOut.out.panic
            /\ repoOut.out.err = "WrongArtifactType"
            /\ IsNil(repoOut.out.manifest)
    /\ (repoOut.called /\ repoCall.fn \in ManifestReturning
          /\ ~IsNil(repoOut.out.manifest))
         => repoOut.out.manifest.Config.mediaType = ModelConfigMediaType

C10_Witness ==
    /\ ReadsStoredManifest
    /\ repoCall.fn = "ResolveManifest"
    /\ store.blobs[CalledDesc.digest].config.mediaType = OtherMediaType
    /\ repoOut.out.err = "WrongArtifactType"

\* the entries of the index that carry a tag of the digest dg
Qualifying(index, dg) ==
    SelectSeq(index, LAMBDA e : e.digest = dg /\ RefNameOf(e) # "")

\* C14: GetTagsForDescriptor returns the reference names of the index
\* entries whose digest is the descriptor's and whose reference name is
\* not empty, one per entry and in index order; other entries add nothing
\* and the result is empty when no entry qualifies.
C14_TagsOfDescriptor ==
    (repoOut.called /\ repoCall.fn = "GetTagsForDescriptor" /\ ~store.indexErr)
        => LET q == Qualifying(store.index, repoCall.arg.digest) IN
           /\ repoOut.out.err = "none"
           /\ Len(repoOut.out.tags) = Len(q)
           /\ \A i \in 1..Len(q) : repoOut.out.tags[i] = RefNameOf(q[i])

\* two tags of the digest, in index order, around an entry of another one
C14_Witness ==
    /\ repoOut.called
    /\ repoCall.fn = "GetTagsForDescriptor"
    /\ repoCall.arg.digest = "m"
    /\ Len(store.index) = 3
    /\ store.index[2].digest = "n"
    /\ RefNameOf(store.index[2]) = "v1"
    /\ repoOut.out.tags = <<"v2", "v1">>

(***************************************************************************)
(* Properties of unpackModel (Spec, SpecCancel).                           *)
(***************************************************************************)
ConfigPath == Append(UnpackDir, DefaultKitFileName)
InRoot(p) == IsPrefix(UnpackDir, p)

\* the loop of unpackModel is about to handle manifest.Layers[layerIdx]
AtLayer == pc = "layers" /\ layerIdx <= Len(manifest.Layers)
LayerKind == manifest.Layers[layerIdx].mediaType

\* the layer at hand is of a kind the options select, and the Kitfile has
\* the entry it takes its path from
LayerSelected ==
    \/ LayerKind = ModelLayerMediaType /\ options.unpackModels
    \/ LayerKind = CodeLayerMediaType /\ options.unpackCode /\ codeIdx < Len(config.Code)
    \/ LayerKind = DataSetLayerMediaType /\ options.unpackDatasets
         /\ datasetIdx < Len(config.DataSets)

\* the path the Kitfile declares for the layer at hand
DeclaredPath ==
    CASE LayerKind = ModelLayerMediaType   -> config.Model
      [] LayerKind = CodeLayerMediaType    -> config.Code[codeIdx + 1]
      [] LayerKind = DataSetLayerMediaType -> config.DataSets[datasetIdx + 1]

\* every path that exists keeps its type
KindsKept == \A p \in DOMAIN fs : p \in DOMAIN fs' /\ fs'[p] = fs[p]

Range(q) == {q[i] : i \in 1..Len(q)}

C2_NothingFetched ==
    err = "PathEscape" => (fetchCalls = <<>> /\ written \subseteq {ConfigPath})

\* C2, amended: when the loop reaches a selected layer whose declared path
\* resolves outside the unpack directory, unpackModel returns a path-escape
\* error before that layer is fetched or extracted; the layers before it
\* have been fetched and extracted by then.
C2_EscapeBeforeFetch ==
    [][ (AtLayer /\ LayerSelected /\ ~InRoot(Join(UnpackDir, DeclaredPath)))
          => /\ pc' = "done"
             /\ err' = "PathEscape"
             /\ fetchCalls' = fetchCalls
             /\ fs' = fs
             /\ written' = written ]_vars

\* the escaping layer is the second one: the first has been extracted
C2_Witness ==
    /\ pc = "done"
    /\ err = "PathEscape"
    /\ layerIdx = 2
    /\ fetchCalls = <<1>>
    /\ written # {}

\* C3: everything the invocation created or wrote lies within the unpack
\* directory.
C3_WritesUnderRoot == \A p \in written : InRoot(p)

\* C4: a layer whose media type is none of model, code and dataset is
\* skipped: no fetch, no filesystem change, and the loop goes on with the
\* next layer.
C4_UnrecognizedSkipped ==
    [][ (AtLayer /\ LayerKind \notin
            {ModelLayerMediaType, CodeLayerMediaType, DataSetLayerMediaType})
          => /\ pc' = "layers"
             /\ layerIdx' = layerIdx + 1
             /\ fetchCalls' = fetchCalls
             /\ fs' = fs ]_vars

\* the destination of the layer being extracted (pc = "extract")
LayerDest ==
    CASE LayerKind = ModelLayerMediaType   -> Join(UnpackDir, config.Model)
      [] LayerKind = CodeLayerMediaType    -> Join(UnpackDir, config.Code[codeIdx])
      [] LayerKind = DataSetLayerMediaType -> Join(UnpackDir, config.DataSets[datasetIdx])
      [] OTHER                             -> EmptyString

\* C5: with overwrite enabled, a path that exists with a type other than
\* the one about to be written there makes the unpack fail with a
\* path-type-conflict error and is left as it was; no step turns a file
\* into a directory or a directory into a file.  This holds for the config
\* document path, for the path of each archive entry, and for the layer
\* destination: a destination that is a regular file, while the archive is
\* about to write entries below it (so a directory at it), is a conflict.
C5_TypeConflict ==
    [][ options.overwrite =>
          /\ KindsKept
          /\ (pc = "config" /\ options.unpackConfig /\ PathExists(fs, ConfigPath)
                /\ ~IsRegular(fs, ConfigPath))
               => (err' = "PathTypeConflict" /\ fs' = fs)
          /\ (pc = "extract" /\ lastStep'.op = "entry"
                /\ lastStep'.type \in {"file", "dir"})
               => /\ (PathExists(fs, lastStep'.path)
                        /\ fs[lastStep'.path] # lastStep'.type)
                       => (err' = "PathTypeConflict" /\ fs' = fs)
                  /\ (IsRegular(fs0, LayerDest) /\ IsRegular(fs, LayerDest)
                        /\ IsPrefix(LayerDest, lastStep'.path)
                        /\ lastStep'.path # LayerDest)
                       => (err' = "PathTypeConflict" /\ fs' = fs) ]_vars

\* C7: the first failure ends the invocation: the error is returned at
\* once, nothing is fetched or written after it, and what was written
\* before it is still there (no rollback).
C7_FirstFailureAborts ==
    [][ /\ err' # "none" =>
             /\ pc' = "done"
             /\ KindsKept
             /\ written \subseteq written'
             /\ \A p \in written' : p \in DOMAIN fs'
        /\ err # "none" =>
             /\ fetchCalls' = fetchCalls
             /\ fs' = fs
             /\ written' = written ]_vars

\* an entry of the first layer fails after another one was written, and
\* a second layer is left unprocessed
C7_Witness ==
    /\ pc = "done"
    /\ err = "ShortWrite"
    /\ layerIdx = 1
    /\ Len(manifest.Layers) = 2
    /\ fetchCalls = <<1>>
    /\ Cardinality(written) >= 2
    /\ \A p \in written : p \in DOMAIN fs

\* C8: once ctx is cancelled, no further archive entry is written, no
\* further layer is fetched, and the invocation ends with a Cancelled
\* error.
C8_CancelStops ==
    [][ cancelled =>
          /\ pc = "extract" => (fs' = fs /\ written' = written)
          /\ fetchCalls' = fetchCalls
          /\ pc' = "done" => err' = "Cancelled" ]_vars

\* the step handles an archive entry: the header tr.Next() returned
EntryStep == pc = "extract" /\ lastStep'.op = "entry" /\ entriesRead' = entriesRead + 1

\* C12: an archive entry that is neither a directory nor a regular file
\* makes the unpack fail at once with an unsupported-entry error: nothing
\* is written for the entry, and after the error no entry and no layer is
\* processed.
C12_UnsupportedEntryFails ==
    [][ /\ (EntryStep /\ lastStep'.type \notin {"file", "dir"})
             => /\ pc' = "done"
                /\ err' = "Unsupported"
                /\ fs' = fs
                /\ written' = written
        /\ err = "Unsupported"
             => /\ fs' = fs
                /\ entriesRead' = entriesRead
                /\ layerIdx' = layerIdx
                /\ fetchCalls' = fetchCalls ]_vars

\* a symlink after an entry that was extracted, a second layer left
C12_Witness ==
    /\ pc = "done"
    /\ err = "Unsupported"
    /\ lastStep.type = "symlink"
    /\ entriesRead = 2
    /\ written # {}
    /\ layerIdx = 1
    /\ Len(manifest.Layers) = 2
    /\ fetchCalls = <<1>>

\* io.Copy is reached for a regular-file entry at p: the checks of lines
\* 186-193 pass and os.OpenFile succeeds
CopyReached(f, p, overwrite) ==
    /\ ~(PathExists(f, p) /\ ~overwrite)
    /\ ~(PathExists(f, p) /\ ~IsRegular(f, p))
    /\ OpenFile(f, p).err = "none"

Unpacked(calls, kind) ==
    Cardinality({i \in 1..Len(calls) : manifest.Layers[calls[i]].mediaType = kind})

\* C15: layers are handled in the order of manifest.Layers, and the N-th
\* code layer that is unpacked takes its destination from config.Code[N],
\* the N-th dataset layer from config.DataSets[N] (N counted from 0),
\* whatever layers come between them: codeIdx counts the code layers
\* unpacked, datasetIdx the dataset layers, each entry is used once and a
\* step advances only the index of its own kind.
C15_PositionalPaths ==
    [][ /\ layerIdx' \in {layerIdx, layerIdx + 1}
        /\ fetchCalls' # fetchCalls =>
             /\ AtLayer
             /\ fetchCalls' = Append(fetchCalls, layerIdx)
             /\ \A i \in Range(fetchCalls) : i < layerIdx
             /\ codeIdx' = Unpacked(fetchCalls', CodeLayerMediaType)
             /\ datasetIdx' = Unpacked(fetchCalls', DataSetLayerMediaType)
             /\ LayerKind = CodeLayerMediaType =>
                  /\ lastStep'.path =
                       Join(UnpackDir, config.Code[Unpacked(fetchCalls, CodeLayerMediaType) + 1])
                  /\ datasetIdx' = datasetIdx
             /\ LayerKind = DataSetLayerMediaType =>
                  /\ lastStep'.path =
                       Join(UnpackDir,
                            config.DataSets[Unpacked(fetchCalls, DataSetLayerMediaType) + 1])
                  /\ codeIdx' = codeIdx
             /\ LayerKind = ModelLayerMediaType =>
                  /\ lastStep'.path = Join(UnpackDir, config.Model)
                  /\ codeIdx' = codeIdx
                  /\ datasetIdx' = datasetIdx
        /\ fetchCalls' = fetchCalls => (codeIdx' = codeIdx /\ datasetIdx' = datasetIdx) ]_vars

\* a dataset layer after a code layer takes the first dataset entry
C15_Witness ==
    /\ pc = "extract"
    /\ fetchCalls = <<1, 2>>
    /\ manifest.Layers[1].mediaType = CodeLayerMediaType
    /\ manifest.Layers[2].mediaType = DataSetLayerMediaType
    /\ codeIdx = 1
    /\ datasetIdx = 1
    /\ lastStep.path = Join(UnpackDir, config.DataSets[1])

\* C16: whatever unpackLayer opened (the fetched stream, the gzip reader,
\* a file per regular-file entry) is closed when it returns, by an error
\* or not: no resource is open between two layers, nor when unpackModel
\* has ended; while a layer is extracted the open ones are the stream, the
\* gzip reader and at most one file per entry read.
C16_HandlesClosed ==
    /\ pc # "extract" => handles = NoHandles
    /\ pc = "extract" =>
         /\ handles.open = handles.deferred
         /\ handles.open >= 2
         /\ handles.open <= 2 + entriesRead

\* unpackLayer returned an error after a file was opened
C16_Witness ==
    /\ pc = "done"
    /\ err = "ShortWrite"
    /\ entriesRead = 2
    /\ lastStep.copy = "short"
    /\ Cardinality(written) = 3
    /\ handles = NoHandles

\* the layer at hand is of a kind the options exclude
LayerExcluded ==
    \/ LayerKind = ModelLayerMediaType /\ ~options.unpackModels
    \/ LayerKind = CodeLayerMediaType /\ ~options.unpackCode
    \/ LayerKind = DataSetLayerMediaType /\ ~options.unpackDatasets

C18_IndexInRange ==
    /\ (AtLayer /\ LayerKind = CodeLayerMediaType /\ options.unpackCode)
         => codeIdx < Len(config.Code)
    /\ (AtLayer /\ LayerKind = DataSetLayerMediaType /\ options.unpackDatasets)
         => datasetIdx < Len(config.DataSets)
    /\ ~(pc = "panic" /\ lastStep.op = "index")

\* C19: with overwrite disabled, nothing that existed before the
\* invocation is modified, truncated or replaced, and an archive entry
\* whose path exists, from before or written earlier in the invocation,
\* ends the unpack with a path-exists error before the path is opened.
C19_ExistingUntouched ==
    [][ ~options.overwrite =>
          /\ \A p \in DOMAIN fs0 :
               p \in DOMAIN fs' /\ fs'[p] = fs0[p] /\ p \notin written'
          /\ (EntryStep /\ lastStep'.type \in {"file", "dir"}
                /\ PathExists(fs, lastStep'.path))
               => /\ pc' = "done"
                  /\ err' = "PathExists"
                  /\ fs' = fs
                  /\ written' = written
                  /\ handles' = NoHandles ]_vars

\* an archive entry names a file that was there before the invocation
C19_Witness ==
    /\ ~options.overwrite
    /\ pc = "done"
    /\ err = "PathExists"
    /\ lastStep.op = "entry"
    /\ lastStep.type = "file"
    /\ IsRegular(fs0, lastStep.path)
    /\ written # {}

\* the errors of unpackConfig
ConfigErrors == {"PathExists", "PathTypeConflict", "Marshal", "WriteConfig"}

\* the config step of an invocation whose modelkit was read is over
ConfigStepOver == ~IsNil(manifest) /\ pc \notin {"start", "config"}

\* what C20 says of an invocation with unpackConfig set: the config
\* document is written before any layer is fetched, an existing path (with
\* overwrite disabled) or an existing path that is no regular file (with
\* overwrite enabled) fails the config step, and a failed config step ends
\* the invocation with its error, nothing fetched and nothing written
ConfigBeforeLayers ==
    /\ (options.unpackConfig /\ fetchCalls # <<>>)
         => (ConfigPath \in written /\ IsRegular(fs, ConfigPath))
    /\ (options.unpackConfig /\ ConfigStepOver /\ PathExists(fs0, ConfigPath)
           /\ ~options.overwrite)
         => (pc = "done" /\ lastStep.op = "config" /\ err = "PathExists")
    /\ (options.unpackConfig /\ ConfigStepOver /\ PathExists(fs0, ConfigPath)
           /\ options.overwrite /\ ~IsRegular(fs0, ConfigPath))
         => (pc = "done" /\ lastStep.op = "config" /\ err = "PathTypeConflict")
    /\ (options.unpackConfig /\ ConfigStepOver /\ ~PathExists(fs0, ConfigPath)
           /\ ~IsDir(fs0, UnpackDir))
         => (pc = "done" /\ lastStep.op = "config" /\ err \in {"Marshal", "WriteConfig"})
    /\ (pc = "done" /\ lastStep.op = "config")
         => (err \in ConfigErrors /\ fetchCalls = <<>> /\ fs = fs0 /\ written = {})

=============================================================================
